---- MODULE Spec2Model ----
(***************************************************************************)
(* Model of the scrape-and-reconcile pipeline of src/scraper.py            *)
(* (Scraper.scrape, Scraper._scrape_page_with_retry,                       *)
(* Scraper._extract_products_from_html) together with the in-memory price  *)
(* cache of src/cache.py and the whole-file storage of src/storage.py.     *)
(*                                                                         *)
(* Prices are integers counted in units of 1e-9, so that the tolerance of  *)
(* the price comparison (abs(a - b) > 1e-9) is the integer PriceTol = 1:   *)
(* prices 0 and 1 differ but are within the tolerance, 0 and 2 are not.    *)
(***************************************************************************)
EXTENDS Integers, Sequences, FiniteSets

(* ------------------------------ bounds --------------------------------- *)

MaxPrice == 2
MaxItems == 1
MaxPages == 2
MaxAttempts == 2
MaxStored == 2

(* The tolerance of src/scraper.py:55 and :72, in units of 1e-9. *)
PriceTol == 1

Titles == {"A", "B"}
Prices == 0..MaxPrice
Images == {"", "img"}

(* cache.get(title, None) of a title that is not cached; no price is negative *)
None == 0 - 1

Product == [product_title : Titles, product_price : Prices, path_to_image : Images]

MkProduct(t, p, im) == [product_title |-> t, product_price |-> p, path_to_image |-> im]

SeqsUpTo(S, n) == UNION {[1..k -> S] : k \in 0..n}

Abs(x) == IF x < 0 THEN 0 - x ELSE x

TitlesOf(list) == {list[k].product_title : k \in DOMAIN list}

(* --------------------------- src/cache.py ------------------------------ *)

EmptyCache == [t \in Titles |-> None]

get_price(c, t) == c[t]

(* variant: the cache keeps only the entry written last *)
update_price_SingleSlot(c, t, p) == [EmptyCache EXCEPT ![t] = p]

update_price(c, t, p) == [c EXCEPT ![t] = p]

(* ------------- the title-indexed dictionary of Scraper.scrape ---------- *)
(* A Python dict keeps insertion order; it is modelled as a sequence of    *)
(* records in insertion order, one per key.                                *)

DictHas(d, t) == \E k \in DOMAIN d : d[k].product_title = t

DictGet(d, t) == d[CHOOSE k \in DOMAIN d : d[k].product_title = t]

(* variant: inserting a new key starts the dictionary afresh *)
DictSet_Reset(d, t, rec) ==
    IF DictHas(d, t)
    THEN [k \in DOMAIN d |-> IF d[k].product_title = t THEN rec ELSE d[k]]
    ELSE <<rec>>

DictSet(d, t, rec) ==
    IF DictHas(d, t)
    THEN [k \in DOMAIN d |-> IF d[k].product_title = t THEN rec ELSE d[k]]
    ELSE Append(d, rec)

RECURSIVE BuildFrom(_, _)
BuildFrom(d, list) ==
    IF list = <<>> THEN d
    ELSE BuildFrom(DictSet(d, Head(list).product_title, Head(list)), Tail(list))

(* variant: the loaded list is used as it is, without indexing by title *)
BuildDict_Unindexed(list) == list

BuildDict(list) == BuildFrom(<<>>, list)

FinalList(d) == d

(* ------------------ Scraper._extract_products_from_html ---------------- *)
(* A response body is modelled by what the extractor reads from it: either *)
(* a document without the mf-shop-content container, a body on which the   *)
(* parser raises, or the sequence of LI items of the container.  An item   *)
(* records whether it has a product-inner element and a mf-product-details *)
(* element, the text of its h2 ("" when absent), the number matched in the *)
(* text around the currency symbol (NoPrice when there is no symbol or no  *)
(* match) and the data-lazy-src of its thumbnail image ("" when absent).   *)

NoPrice == 0 - 1

(* An element that is absent has no content: without product-inner there   *)
(* is neither thumbnail nor details, without details neither h2 nor price. *)
Item == {it \in [inner : BOOLEAN, details : BOOLEAN, title : Titles \cup {""},
                 price : Prices \cup {NoPrice}, img : Images] :
            /\ (~it.inner => ~it.details /\ it.img = "")
            /\ (~it.details => it.title = "" /\ it.price = NoPrice)}

NoContainer == [kind |-> "no_container", items |-> <<>>]

Malformed == [kind |-> "malformed", items |-> <<>>]

Listing(items) == [kind |-> "listing", items |-> items]

(* no response at hand *)
NoResponse == [kind |-> "none", items |-> <<>>]

HtmlPages == {NoContainer, Malformed} \cup {Listing(items) : items \in SeqsUpTo(Item, MaxItems)}

ItemTitle(item) == IF item.details THEN item.title ELSE ""

ItemPrice(item) == IF item.details /\ item.price # NoPrice THEN item.price ELSE 0

(* variant: an item without a price is dropped *)
ExtractItem_RequiresPrice(item) ==
    IF ~item.inner THEN <<>>
    ELSE IF ItemTitle(item) # "" /\ item.price # NoPrice
         THEN <<MkProduct(ItemTitle(item), ItemPrice(item), item.img)>>
         ELSE <<>>

ExtractItem(item) ==
    IF ~item.inner THEN <<>>
    ELSE IF ItemTitle(item) # ""
         THEN <<MkProduct(ItemTitle(item), ItemPrice(item), item.img)>>
         ELSE <<>>

RECURSIVE ExtractItems(_)
ExtractItems(items) ==
    IF items = <<>> THEN <<>>
    ELSE ExtractItem(Head(items)) \o ExtractItems(Tail(items))

ExtractProducts(html) ==
    IF html.kind = "malformed" THEN <<>>
    ELSE IF html.kind = "no_container" THEN <<>>
    ELSE ExtractItems(html.items)

(* ------------------- the reconciliation loop of scrape ----------------- *)
(* The loop state is the triple (existing_dict, cache, updated_count).     *)

PriceChanged(a, b) == Abs(a - b) > PriceTol

(* variant: the stored record is kept and only the cache follows the price *)
ChangedOnHit_CacheOnly(st, product) ==
    [st EXCEPT !.cache = update_price(st.cache, product.product_title, product.product_price),
               !.updated_count = st.updated_count + 1]

(* variant: the stored record is replaced but the cache keeps the old price *)
ChangedOnHit_StaleCache(st, product) ==
    [st EXCEPT !.existing_dict = DictSet(st.existing_dict, product.product_title, product),
               !.updated_count = st.updated_count + 1]

ChangedOnHit(st, product) ==
    [existing_dict |-> DictSet(st.existing_dict, product.product_title, product),
     cache |-> update_price(st.cache, product.product_title, product.product_price),
     updated_count |-> st.updated_count + 1]

(* variant: a new product is stored and counted but not cached *)
NewProduct_Uncached(st, product) ==
    [st EXCEPT !.existing_dict = DictSet(st.existing_dict, product.product_title, product),
               !.updated_count = st.updated_count + 1]

(* variant: a new product is stored and cached but not counted *)
NewProduct_Uncounted(st, product) ==
    [st EXCEPT !.existing_dict = DictSet(st.existing_dict, product.product_title, product),
               !.cache = update_price(st.cache, product.product_title, product.product_price)]

(* variant: a new product is cached and counted but not stored *)
NewProduct_CacheOnly(st, product) ==
    [st EXCEPT !.cache = update_price(st.cache, product.product_title, product.product_price),
               !.updated_count = st.updated_count + 1]

NewProduct(st, product) ==
    [existing_dict |-> DictSet(st.existing_dict, product.product_title, product),
     cache |-> update_price(st.cache, product.product_title, product.product_price),
     updated_count |-> st.updated_count + 1]

(* variant: the cache is written only when the price changed *)
ColdEntry_Unseeded(st, product) ==
    LET stored_price == DictGet(st.existing_dict, product.product_title).product_price
    IN  IF PriceChanged(stored_price, product.product_price)
        THEN [existing_dict |-> DictSet(st.existing_dict, product.product_title, product),
              cache |-> update_price(st.cache, product.product_title, product.product_price),
              updated_count |-> st.updated_count + 1]
        ELSE st

(* variant: the scraped record takes the place of the stored one even when *)
(* the price is unchanged                                                  *)
ColdEntry_AlwaysReplace(st, product) ==
    LET stored_price == DictGet(st.existing_dict, product.product_title).product_price
    IN  [existing_dict |-> DictSet(st.existing_dict, product.product_title, product),
         cache |-> update_price(st.cache, product.product_title, product.product_price),
         updated_count |-> IF PriceChanged(stored_price, product.product_price)
                           THEN st.updated_count + 1 ELSE st.updated_count]

(* variant: seeding the cache is counted as an update as well *)
ColdEntry_DoubleCount(st, product) ==
    LET stored_price == DictGet(st.existing_dict, product.product_title).product_price
        seeded == update_price(st.cache, product.product_title, stored_price)
    IN  IF PriceChanged(stored_price, product.product_price)
        THEN [existing_dict |-> DictSet(st.existing_dict, product.product_title, product),
              cache |-> update_price(seeded, product.product_title, product.product_price),
              updated_count |-> st.updated_count + 2]
        ELSE [st EXCEPT !.cache = seeded]

ColdEntry(st, product) ==
    LET stored_price == DictGet(st.existing_dict, product.product_title).product_price
        seeded == update_price(st.cache, product.product_title, stored_price)
    IN  IF PriceChanged(stored_price, product.product_price)
        THEN [existing_dict |-> DictSet(st.existing_dict, product.product_title, product),
              cache |-> update_price(seeded, product.product_title, product.product_price),
              updated_count |-> st.updated_count + 1]
        ELSE [st EXCEPT !.cache = seeded]

ReconcileStep(st, product) ==
    LET cached_price == get_price(st.cache, product.product_title)
    IN  IF cached_price # None
        THEN IF PriceChanged(cached_price, product.product_price)
             THEN ChangedOnHit(st, product)
             ELSE st
        ELSE IF ~DictHas(st.existing_dict, product.product_title)
             THEN NewProduct(st, product)
             ELSE ColdEntry(st, product)

RECURSIVE ReconcileFrom(_, _)
ReconcileFrom(st, scraped) ==
    IF scraped = <<>> THEN st
    ELSE ReconcileFrom(ReconcileStep(st, Head(scraped)), Tail(scraped))

Reconcile(existing, c, scraped) ==
    ReconcileFrom([existing_dict |-> existing, cache |-> c, updated_count |-> 0], scraped)

(* ---------------- the retry loop of _scrape_page_with_retry ------------ *)
(* What follows a failed fetch in iteration `attempt` of range(attempts):  *)
(* a backoff sleep when attempts remain, the exception otherwise.          *)

(* variant: an exhausted page is skipped with an empty result *)
AfterFailure_Skip(attempt, attempts) ==
    IF attempt < attempts - 1 THEN "sleep" ELSE "returned"

(* variant: the retry follows at once, without the backoff sleep *)
AfterFailure_NoSleep(attempt, attempts) ==
    IF attempt < attempts - 1 THEN "fetch" ELSE "aborted"

(* variant: the last attempt is taken to have a successor *)
AfterFailure_OffByOne(attempt, attempts) ==
    IF attempt < attempts THEN "sleep" ELSE "aborted"

AfterFailure(attempt, attempts) ==
    IF attempt < attempts - 1 THEN "sleep" ELSE "aborted"

(* variant: the loop body runs once before the bound is looked at *)
InRange_AtLeastOnce(attempt, attempts) == attempt = 0 \/ attempt < attempts

(* range(attempts) has an iteration numbered `attempt` *)
InRange(attempt, attempts) == attempt < attempts

(* variant: an exception of the extractor leaves the call *)
AfterResponse_Propagates(html) ==
    IF html.kind = "malformed" THEN "aborted" ELSE "returned"

(* What follows a successful GET: the extractor absorbs its own failures   *)
(* (try/except of lines 167-226), so the call returns (lines 96-97).       *)
AfterResponse(html) == "returned"

(* variant: the page loop stops one page early *)
MorePages_StopsEarly(p, limit) == p < limit - 1

(* range(1, pages_to_scrape + 1) has a page after p *)
MorePages(p, limit) == p < limit

(* ----------------------------- src/app.py ------------------------------ *)

API_TOKEN == "MY_STATIC_TOKEN"

(* a request without the x-token header *)
NoHeader == "<no header>"

Tokens == {API_TOKEN, "WRONG_TOKEN", NoHeader}

(* variant: every presented token is let through *)
verify_token_Open(t) == TRUE

(* The dependency lets the request through (lines 14-19; a request without *)
(* the header is refused by Header(...) before the comparison).            *)
verify_token(t) == t # NoHeader /\ t = API_TOKEN

(* The status of a refused request: 422 without the header, 401 otherwise. *)
RejectStatus(t) == IF t = NoHeader THEN 422 ELSE 401

(* retry_attempts=3 of the configuration the endpoint builds *)
AppRetryAttempts == 3

(* ------------------------------- state --------------------------------- *)

VARIABLES
    storage,            \* the records of the storage file (JSONFileStorage)
    cache,              \* InMemoryCache.cache
    limit_pages,        \* config.limit_pages of the run
    retry_attempts,     \* config.retry_attempts of the run
    pc,                 \* position of the run of Scraper.scrape
    existing_products,  \* what storage.load returned to this run
    existing_dict,      \* the title-indexed dictionary
    scraped_products,   \* the accumulated page results
    page,               \* loop variable of the page loop
    attempt,            \* loop variable of the retry loop
    page_products,      \* result of _scrape_page_with_retry
    response,           \* the body of the successful GET of the current call
    exhausted,          \* some page of this run failed every one of its attempts
    trace,              \* fetches and sleeps of the current call, in order
    updated_count,
    idx,                \* position of the reconciliation loop in scraped_products
    cache0,             \* the cache as it was when the run started
    save_calls,         \* calls of storage.save in this run
    send_calls,         \* calls of notifier.send in this run
    message,            \* the last message sent
    load_calls,         \* calls of storage.load in this run
    x_token,            \* the x-token header of the last trigger request
    status              \* the HTTP status of the last trigger response, 0 before it

vars == <<storage, cache, limit_pages, retry_attempts, pc, existing_products,
          existing_dict, scraped_products, page, attempt, page_products, response,
          exhausted, trace, updated_count, idx, cache0, save_calls, send_calls, message,
          load_calls, x_token, status>>

LimitPagesValues == 1..MaxPages

RetryAttemptsValues == (0 - 1)..MaxAttempts

NoMessage == [scraped |-> 0 - 1, updated |-> 0 - 1]

(* f"Scraped {len(scraped_products)} products. Updated {updated_count} in DB." *)
Message(n, u) == [scraped |-> n, updated |-> u]

Count(seq, e) == Cardinality({k \in DOMAIN seq : seq[k] = e})

Fetches(tr) == Count(tr, "fail") + Count(tr, "ok")

Sleeps(tr) == Count(tr, "sleep")

(* The records of the storage file before the first run: any list of at   *)
(* most MaxStored records, repeated titles included, without image paths. *)
StoredAtStart == {r \in Product : r.path_to_image = ""}

TypeOK ==
    /\ storage \in Seq(Product)
    /\ cache \in [Titles -> Prices \cup {None}]
    /\ pc \in {"idle", "fetch", "sleep", "returned", "reconcile", "notify", "done", "aborted",
               "crashed", "responded", "extract", "extracted"}

Init ==
    /\ storage \in SeqsUpTo(StoredAtStart, MaxStored)
    /\ cache \in [Titles -> Prices \cup {None}]
    /\ limit_pages = 1
    /\ retry_attempts = 1
    /\ pc = "idle"
    /\ existing_products = <<>>
    /\ existing_dict = <<>>
    /\ scraped_products = <<>>
    /\ page = 0
    /\ attempt = 0
    /\ page_products = <<>>
    /\ response = NoResponse
    /\ exhausted = FALSE
    /\ trace = <<>>
    /\ updated_count = 0
    /\ idx = 0
    /\ cache0 = cache
    /\ save_calls = 0
    /\ send_calls = 0
    /\ message = NoMessage
    /\ load_calls = 0
    /\ x_token = NoHeader
    /\ status = 0

(* scrape(), lines 33-45, of a Scraper with configuration (lp, ra) and     *)
(* cache object c: load, build the dictionary, enter the page loop and      *)
(* call _scrape_page_with_retry(1): the first iteration of range(attempts)  *)
(* if there is one, `return []` of line 105 otherwise.  With limit_pages    *)
(* None, `pages_to_scrape + 1` of line 43 raises TypeError.                 *)
BeginScrape(lp, ra, c) ==
    /\ limit_pages' = lp
    /\ retry_attempts' = ra
    /\ cache' = c
    /\ cache0' = c
    /\ existing_products' = storage
    /\ load_calls' = 1
    /\ existing_dict' = BuildDict(storage)
    /\ scraped_products' = <<>>
    /\ page' = 1
    /\ attempt' = 0
    /\ page_products' = <<>>
    /\ response' = NoResponse
    /\ exhausted' = FALSE
    /\ trace' = <<>>
    /\ updated_count' = 0
    /\ idx' = 0
    /\ save_calls' = 0
    /\ send_calls' = 0
    /\ message' = NoMessage
    /\ pc' = IF lp = None THEN "crashed"
             ELSE IF InRange(0, ra) THEN "fetch" ELSE "returned"
    /\ UNCHANGED storage

(* scrape() is called on a Scraper; storage and cache are the objects it    *)
(* was given.                                                               *)
Start ==
    /\ pc \in {"idle", "done", "aborted"}
    /\ \E lp \in LimitPagesValues, ra \in RetryAttemptsValues :
          BeginScrape(lp, ra, cache)
    /\ UNCHANGED <<x_token, status>>

(* _scrape_single_page succeeds: the GET returns a body, raise_for_status   *)
(* passes and the extractor's result is returned (lines 96-97, 129-134).    *)
FetchOk ==
    /\ UNCHANGED <<load_calls, x_token, status>>
    /\ pc = "fetch"
    /\ \E html \in HtmlPages :
          /\ response' = html
          /\ page_products' = ExtractProducts(html)
          /\ pc' = AfterResponse(html)
    /\ trace' = Append(trace, "ok")
    /\ UNCHANGED <<storage, cache, limit_pages, retry_attempts, existing_products,
                   existing_dict, scraped_products, page, attempt, exhausted, updated_count,
                   idx, cache0, save_calls, send_calls, message>>

(* _scrape_single_page raises requests.RequestException (lines 98-104).     *)
FetchFail ==
    /\ UNCHANGED <<load_calls, x_token, status>>
    /\ pc = "fetch"
    /\ trace' = Append(trace, "fail")
    /\ pc' = AfterFailure(attempt, retry_attempts)
    /\ exhausted' = (exhausted \/ Count(trace', "fail") >= retry_attempts)
    /\ UNCHANGED <<storage, cache, limit_pages, retry_attempts, existing_products,
                   existing_dict, scraped_products, page, attempt, page_products,
                   response, updated_count, idx, cache0, save_calls, send_calls, message>>

(* time.sleep(backoff), then the next iteration of range(attempts), or the  *)
(* `return []` after the loop (lines 101, 94, 105).                         *)
Sleep ==
    /\ UNCHANGED <<load_calls, x_token, status>>
    /\ pc = "sleep"
    /\ trace' = Append(trace, "sleep")
    /\ attempt' = attempt + 1
    /\ pc' = IF InRange(attempt + 1, retry_attempts) THEN "fetch" ELSE "returned"
    /\ UNCHANGED <<storage, cache, limit_pages, retry_attempts, existing_products,
                   existing_dict, scraped_products, page, page_products,
                   response, exhausted, updated_count, idx, cache0, save_calls, send_calls, message>>

(* scraped_products.extend(page_products), then the next page or the start  *)
(* of the reconciliation loop (lines 46, 43, 49-51).  The locals of the     *)
(* finished call are gone.                                                  *)
Extend ==
    /\ UNCHANGED <<load_calls, x_token, status>>
    /\ pc = "returned"
    /\ scraped_products' = scraped_products \o page_products
    /\ page_products' = <<>>
    /\ response' = NoResponse
    /\ trace' = <<>>
    /\ attempt' = 0
    /\ IF MorePages(page, limit_pages)
       THEN /\ page' = page + 1
            /\ pc' = IF InRange(0, retry_attempts) THEN "fetch" ELSE "returned"
            /\ UNCHANGED <<updated_count, idx>>
       ELSE /\ page' = page
            /\ pc' = "reconcile"
            /\ updated_count' = 0
            /\ idx' = 1
    /\ UNCHANGED <<storage, cache, limit_pages, retry_attempts, existing_products,
                   existing_dict, exhausted, cache0, save_calls, send_calls, message>>

(* One iteration of `for product in scraped_products` (lines 51-76).        *)
ReconcileProduct ==
    /\ UNCHANGED <<load_calls, x_token, status>>
    /\ pc = "reconcile"
    /\ idx <= Len(scraped_products)
    /\ LET st == ReconcileStep([existing_dict |-> existing_dict, cache |-> cache,
                                updated_count |-> updated_count],
                               scraped_products[idx])
       IN  /\ existing_dict' = st.existing_dict
           /\ cache' = st.cache
           /\ updated_count' = st.updated_count
    /\ idx' = idx + 1
    /\ UNCHANGED <<storage, limit_pages, retry_attempts, pc, existing_products,
                   scraped_products, page, attempt, page_products, response,
                   exhausted, trace, cache0, save_calls, send_calls, message>>

(* final_list = list(existing_dict.values()); storage.save(final_list)      *)
(* (lines 79-80; JSONFileStorage.save rewrites the whole file).             *)
Save ==
    /\ UNCHANGED <<load_calls, x_token, status>>
    /\ pc = "reconcile"
    /\ idx > Len(scraped_products)
    /\ storage' = FinalList(existing_dict)
    /\ save_calls' = save_calls + 1
    /\ pc' = "notify"
    /\ UNCHANGED <<cache, limit_pages, retry_attempts, existing_products,
                   existing_dict, scraped_products, page, attempt, page_products,
                   response, exhausted, trace, updated_count, idx, cache0,
                   send_calls, message>>

(* notifier.send(message) (lines 83-84); scrape returns.                    *)
Notify ==
    /\ UNCHANGED <<load_calls, x_token, status>>
    /\ pc = "notify"
    /\ message' = Message(Len(scraped_products), updated_count)
    /\ send_calls' = send_calls + 1
    /\ pc' = "done"
    /\ UNCHANGED <<storage, cache, limit_pages, retry_attempts, existing_products,
                   existing_dict, scraped_products, page, attempt, page_products,
                   response, exhausted, trace, updated_count, idx, cache0, save_calls>>

Next ==
    \/ Start
    \/ FetchOk
    \/ FetchFail
    \/ Sleep
    \/ Extend
    \/ ReconcileProduct
    \/ Save
    \/ Notify

Spec == Init /\ [][Next]_vars

(* ------------------- the /scrape endpoint of src/app.py ---------------- *)

(* limit_pages of the query string: omitted (None) or a page count *)
LimitPagesParams == {None} \cup LimitPagesValues

(* POST /scrape with a token the dependency lets through (lines 25-59): a   *)
(* configuration with the query's limit_pages and retry_attempts=3, a new   *)
(* InMemoryCache, a Scraper over the storage file, and scraper.scrape().    *)
Accept ==
    /\ pc \in {"idle", "responded"}
    /\ \E t \in Tokens, lp \in LimitPagesParams :
          /\ verify_token(t)
          /\ x_token' = t
          /\ BeginScrape(lp, AppRetryAttempts, EmptyCache)
    /\ status' = 0

(* POST /scrape with a token the dependency refuses (lines 14-19): the      *)
(* handler body does not run.                                               *)
Reject ==
    /\ pc \in {"idle", "responded"}
    /\ \E t \in Tokens :
          /\ ~verify_token(t)
          /\ x_token' = t
          /\ status' = RejectStatus(t)
    /\ pc' = "responded"
    /\ existing_products' = <<>>
    /\ load_calls' = 0
    /\ existing_dict' = <<>>
    /\ scraped_products' = <<>>
    /\ page' = 0
    /\ attempt' = 0
    /\ page_products' = <<>>
    /\ response' = NoResponse
    /\ exhausted' = FALSE
    /\ trace' = <<>>
    /\ updated_count' = 0
    /\ idx' = 0
    /\ save_calls' = 0
    /\ send_calls' = 0
    /\ message' = NoMessage
    /\ cache0' = cache
    /\ UNCHANGED <<storage, cache, limit_pages, retry_attempts>>

(* scraper.scrape() has returned and the handler answers                    *)
(* {"message": "Scraping initiated."} (line 61), or it has raised and the   *)
(* server answers 500.                                                      *)
Respond ==
    /\ pc \in {"done", "aborted", "crashed"}
    /\ status' = IF pc = "done" THEN 200 ELSE 500
    /\ pc' = "responded"
    /\ UNCHANGED <<storage, cache, limit_pages, retry_attempts, existing_products,
                   existing_dict, scraped_products, page, attempt, page_products,
                   response, exhausted, trace, updated_count, idx, cache0, save_calls,
                   send_calls, message, load_calls, x_token>>

NextApp ==
    \/ Accept
    \/ Reject
    \/ FetchOk
    \/ FetchFail
    \/ Sleep
    \/ Extend
    \/ ReconcileProduct
    \/ Save
    \/ Notify
    \/ Respond

(* The server starts with no request served; the cache of a run is made by  *)
(* the handler.                                                             *)
InitApp == Init /\ cache = EmptyCache

SpecApp == InitApp /\ [][NextApp]_vars

(* ------------- _extract_products_from_html on its own ------------------ *)

MaxSiblings == 2

(* Bodies with up to MaxSiblings items in the container. *)
HtmlListings == {NoContainer, Malformed} \cup {Listing(items) : items \in SeqsUpTo(Item, MaxSiblings)}

InitExtract ==
    /\ storage = <<>>
    /\ cache = EmptyCache
    /\ limit_pages = 1
    /\ retry_attempts = 1
    /\ pc = "extract"
    /\ existing_products = <<>>
    /\ existing_dict = <<>>
    /\ scraped_products = <<>>
    /\ page = 1
    /\ attempt = 0
    /\ page_products = <<>>
    /\ response \in HtmlListings
    /\ exhausted = FALSE
    /\ trace = <<>>
    /\ updated_count = 0
    /\ idx = 0
    /\ cache0 = cache
    /\ save_calls = 0
    /\ send_calls = 0
    /\ message = NoMessage
    /\ load_calls = 0
    /\ x_token = NoHeader
    /\ status = 0

(* _extract_products_from_html(response.text) (line 134). *)
ExtractPage ==
    /\ pc = "extract"
    /\ page_products' = ExtractProducts(response)
    /\ pc' = "extracted"
    /\ UNCHANGED <<storage, cache, limit_pages, retry_attempts, existing_products,
                   existing_dict, scraped_products, page, attempt, response, exhausted,
                   trace, updated_count, idx, cache0, save_calls, send_calls, message,
                   load_calls, x_token, status>>

NextExtract == ExtractPage

SpecExtract == InitExtract /\ [][NextExtract]_vars

(* The same program with a cache object that starts empty. *)
InitCold == Init /\ cache = EmptyCache

SpecCold == InitCold /\ [][Next]_vars

(* ------------------------------ properties ----------------------------- *)

(* The reconciliation loop of the run has ended. *)
ReconcileEnded ==
    \/ pc \in {"notify", "done"}
    \/ pc = "reconcile" /\ idx > Len(scraped_products)

(* The run has called storage.save. *)
Saved == pc \in {"notify", "done"}

RecordsOf(d) == {d[k] : k \in DOMAIN d}

(* The record a title-indexed reading of `list` holds under t: the last one. *)
LastWithTitle(list, t) ==
    list[CHOOSE k \in DOMAIN list :
            /\ list[k].product_title = t
            /\ \A m \in DOMAIN list : list[m].product_title = t => m <= k]

(* fail, sleep, fail, sleep, ... : k failed attempts, each followed by a sleep *)
FailSleep(k) == [j \in 1..(2 * k) |-> IF j % 2 = 1 THEN "fail" ELSE "sleep"]

Permutations(seq) ==
    {[k \in DOMAIN seq |-> seq[f[k]]] :
        f \in {g \in [DOMAIN seq -> DOMAIN seq] : \A a, b \in DOMAIN seq : g[a] = g[b] => a = b}}

(* C1: a run in which some page failed all of its retry_attempts attempts  *)
(* has aborted, has called neither storage.save nor notifier.send, and the *)
(* storage still holds exactly what load returned.                         *)
C1_AbortWithoutSave ==
    exhausted =>
        /\ pc = "aborted"
        /\ save_calls = 0
        /\ send_calls = 0
        /\ storage = existing_products

(* C1 witness: the second page is exhausted after the first one succeeded  *)
(* with a product, over a non-empty storage.                               *)
C1_Witness ==
    /\ exhausted
    /\ pc = "aborted"
    /\ page = 2
    /\ Len(scraped_products) >= 1
    /\ existing_products # <<>>
    /\ Count(trace, "fail") = retry_attempts

(* C2 as claimed: reconciling the same scraped list again, from the merged *)
(* set and the cache the run produced, updates nothing, for every scraped  *)
(* list, repeated titles included.                                         *)
C2_Idempotent ==
    pc = "done" =>
        Reconcile(existing_dict, cache, scraped_products).updated_count = 0

(* No two scraped products of one title differ in price beyond the tolerance. *)
PricesAgreePerTitle(scraped) ==
    \A j, k \in DOMAIN scraped :
        scraped[j].product_title = scraped[k].product_title =>
            Abs(scraped[j].product_price - scraped[k].product_price) <= PriceTol

(* C2 amended: reconciling the same scraped list again, from the merged    *)
(* set and the cache the run produced, updates nothing, provided no two    *)
(* scraped products of one title differ in price by more than 1e-9.        *)
C2_IdempotentAgreeing ==
    (pc = "done" /\ PricesAgreePerTitle(scraped_products)) =>
        Reconcile(existing_dict, cache, scraped_products).updated_count = 0

(* C2 witness: a run that updated both of its two products, one by a cache *)
(* hit with a changed price, has completed.                                *)
C2_Witness ==
    /\ pc = "done"
    /\ Len(scraped_products) = 2
    /\ PricesAgreePerTitle(scraped_products)
    /\ updated_count = 2
    /\ \E k \in DOMAIN scraped_products : cache0[scraped_products[k].product_title] # None

(* C3: with a cache that started empty, after each completed run every     *)
(* title scraped in that run is cached, and its cached price is the price  *)
(* of the record the storage holds under that title.                       *)
C3_CacheAgreesWithStorage ==
    pc = "done" =>
        \A t \in TitlesOf(scraped_products) :
            /\ cache[t] # None
            /\ DictHas(storage, t)
            /\ DictGet(storage, t).product_price = cache[t]

(* C3 witness: a later run, started with a cache filled by earlier runs,   *)
(* has completed with two scraped titles, one kept and one updated.        *)
C3_Witness ==
    /\ pc = "done"
    /\ cache0 # EmptyCache
    /\ Cardinality(TitlesOf(scraped_products)) = 2
    /\ updated_count = 1

(* C4 as claimed: whatever the order of the scraped list, the merged set   *)
(* and updatedCount of the run are those of every permutation of it.       *)
C4_OrderIndependent ==
    ReconcileEnded =>
        \A q \in Permutations(scraped_products) :
            LET r == Reconcile(BuildDict(existing_products), cache0, q)
            IN  /\ RecordsOf(r.existing_dict) = RecordsOf(existing_dict)
                /\ r.updated_count = updated_count

(* Scraped products of one title are one and the same record. *)
OneRecordPerTitle(scraped) ==
    \A j, k \in DOMAIN scraped :
        scraped[j].product_title = scraped[k].product_title => scraped[j] = scraped[k]

(* C4 amended: the merged set and updatedCount of the run are those of     *)
(* every permutation of the scraped list, provided scraped products that   *)
(* share a title are identical records.                                    *)
C4_OrderIndependentDistinct ==
    (ReconcileEnded /\ OneRecordPerTitle(scraped_products)) =>
        \A q \in Permutations(scraped_products) :
            LET r == Reconcile(BuildDict(existing_products), cache0, q)
            IN  /\ RecordsOf(r.existing_dict) = RecordsOf(existing_dict)
                /\ r.updated_count = updated_count

(* C4 witness: two pages brought two different titles, one a new product   *)
(* and one a stored product with a changed price.                          *)
C4_Witness ==
    /\ ReconcileEnded
    /\ Len(scraped_products) = 2
    /\ Cardinality(TitlesOf(scraped_products)) = 2
    /\ \E t \in TitlesOf(scraped_products) : ~DictHas(existing_products, t)
    /\ \E t \in TitlesOf(scraped_products) : DictHas(existing_products, t)
    /\ updated_count = 2

(* C5: every title storage.load returned is in the list passed to          *)
(* storage.save, and a loaded title that was not scraped keeps its record. *)
C5_NoTitleLost ==
    Saved =>
        \A t \in TitlesOf(existing_products) :
            /\ t \in TitlesOf(storage)
            /\ (t \notin TitlesOf(scraped_products) =>
                    LastWithTitle(existing_products, t) \in RecordsOf(storage))

(* C5 witness: a run over two stored titles scraped and replaced one of    *)
(* them and saved.                                                         *)
C5_Witness ==
    /\ Saved
    /\ Cardinality(TitlesOf(existing_products)) = 2
    /\ Cardinality(TitlesOf(scraped_products)) = 1
    /\ updated_count >= 1
    /\ storage # existing_products

(* C6: the list passed to storage.save holds no two records of one title.  *)
C6_SavedTitlesUnique ==
    Saved =>
        \A j, k \in DOMAIN storage :
            storage[j].product_title = storage[k].product_title => j = k

(* C6 witness: the loaded list repeated a title, and so did the scraped    *)
(* list, and the run saved.                                                *)
C6_Witness ==
    /\ Saved
    /\ Len(existing_products) = 2
    /\ Cardinality(TitlesOf(existing_products)) = 1
    /\ Len(scraped_products) = 2
    /\ Cardinality(TitlesOf(scraped_products)) = 1

(* C7: a call of _scrape_page_with_retry with retry_attempts >= 1 that     *)
(* returns from a successful fetch after k failed ones has k below         *)
(* retry_attempts, returns the products extracted from that response, and  *)
(* has made k + 1 fetches and k sleeps, one sleep after each failure.      *)
C7_RetrySuccess ==
    (pc = "returned" /\ retry_attempts >= 1) =>
        LET k == Count(trace, "fail")
        IN  /\ k < retry_attempts
            /\ trace = FailSleep(k) \o <<"ok">>
            /\ Fetches(trace) = k + 1
            /\ Sleeps(trace) = k
            /\ page_products = ExtractProducts(response)

(* C7 witness: the first attempt failed, the second succeeded and brought  *)
(* a product.                                                              *)
C7_Witness ==
    /\ pc = "returned"
    /\ trace = <<"fail", "sleep", "ok">>
    /\ Len(page_products) = 1

(* C8: with retry_attempts = n >= 1 a call never makes more than n fetches; *)
(* it raises if and only if n attempts failed, and then it has made n      *)
(* fetches and n - 1 sleeps, none after the last failure.                  *)
C8_RetryExhaustion ==
    retry_attempts >= 1 =>
        /\ Fetches(trace) <= retry_attempts
        /\ (pc = "aborted" <=> Count(trace, "fail") = retry_attempts)
        /\ (pc = "aborted" =>
                /\ Fetches(trace) = retry_attempts
                /\ Sleeps(trace) = retry_attempts - 1
                /\ trace = FailSleep(retry_attempts - 1) \o <<"fail">>)

(* C8 witness: both attempts of a budget of two failed. *)
C8_Witness ==
    /\ pc = "aborted"
    /\ retry_attempts = 2
    /\ trace = <<"fail", "sleep", "fail">>

(* Titles of scraped products that were neither cached nor stored when the *)
(* reconciliation started.                                                 *)
NewTitles ==
    {t \in TitlesOf(scraped_products) :
        cache0[t] = None /\ ~DictHas(existing_products, t)}

(* C9 as claimed: every scraped product whose title was neither cached nor *)
(* stored is in the merged set and counted, and the cache ends with that   *)
(* product's price, repeated titles included.                              *)
C9_NewProducts ==
    ReconcileEnded =>
        /\ updated_count >= Cardinality(NewTitles)
        /\ \A k \in DOMAIN scraped_products :
              LET t == scraped_products[k].product_title
              IN  t \in NewTitles =>
                    /\ DictHas(existing_dict, t)
                    /\ cache[t] = scraped_products[k].product_price

(* C9 amended: every scraped product P whose title T was neither cached    *)
(* nor stored is in the merged set and counted, T ends cached, and the     *)
(* cache ends with P's price when every scraped product titled T has P's   *)
(* price.                                                                  *)
C9_NewProductsSamePrice ==
    ReconcileEnded =>
        /\ updated_count >= Cardinality(NewTitles)
        /\ \A k \in DOMAIN scraped_products :
              LET t == scraped_products[k].product_title
              IN  t \in NewTitles =>
                    /\ DictHas(existing_dict, t)
                    /\ cache[t] # None
                    /\ ((\A m \in DOMAIN scraped_products :
                            scraped_products[m].product_title = t =>
                                scraped_products[m].product_price =
                                    scraped_products[k].product_price)
                        => cache[t] = scraped_products[k].product_price)

(* C9 witness: two new products of different titles were reconciled over a *)
(* storage and a cache that knew neither.                                  *)
C9_Witness ==
    /\ ReconcileEnded
    /\ Cardinality(NewTitles) = 2
    /\ updated_count = 2

(* C10: a reconciliation step on a product P whose title T is cached: when *)
(* the cached price differs from P's by more than the tolerance, the step  *)
(* puts P itself under T in the merged set (other entries untouched), sets *)
(* cache[T] to P's price and adds one to updatedCount; when the cached     *)
(* price equals P's, it changes none of the three.                         *)
C10_CacheHitStep ==
    [][(pc = "reconcile" /\ idx <= Len(scraped_products) /\ idx' = idx + 1
            /\ cache[scraped_products[idx].product_title] # None) =>
        LET P == scraped_products[idx]
            T == P.product_title
        IN  IF Abs(cache[T] - P.product_price) > PriceTol
            THEN /\ DictHas(existing_dict', T)
                 /\ DictGet(existing_dict', T) = P
                 /\ \A r \in RecordsOf(existing_dict) :
                        r.product_title # T => r \in RecordsOf(existing_dict')
                 /\ TitlesOf(existing_dict') = TitlesOf(existing_dict) \cup {T}
                 /\ cache' = [cache EXCEPT ![T] = P.product_price]
                 /\ updated_count' = updated_count + 1
            ELSE cache[T] = P.product_price =>
                    UNCHANGED <<existing_dict, cache, updated_count>>
      ]_vars

(* C10 witness: the first step of a reconciliation met a cached price that *)
(* differed from the scraped one and replaced a stored record that had     *)
(* another image path.                                                     *)
C10_Witness ==
    /\ pc = "reconcile"
    /\ idx = 2
    /\ cache0[scraped_products[1].product_title] # None
    /\ Abs(cache0[scraped_products[1].product_title]
            - scraped_products[1].product_price) > PriceTol
    /\ DictHas(existing_products, scraped_products[1].product_title)
    /\ LastWithTitle(existing_products, scraped_products[1].product_title).path_to_image
          # scraped_products[1].path_to_image
    /\ scraped_products[1] \in RecordsOf(existing_dict)
    /\ updated_count = 1

(* The loaded records read by title: for each title the record the         *)
(* title-indexed dictionary holds, which is the last one loaded.           *)
LoadedByTitle ==
    {LastWithTitle(existing_products, t) : t \in TitlesOf(existing_products)}

TitlesUnique(list) ==
    \A j, k \in DOMAIN list : list[j].product_title = list[k].product_title => j = k

(* The run started with an empty cache and every scraped product's title   *)
(* is stored with the scraped price, up to the tolerance.                  *)
ColdUnchangedRun ==
    /\ cache0 = EmptyCache
    /\ \A k \in DOMAIN scraped_products :
          /\ DictHas(existing_products, scraped_products[k].product_title)
          /\ Abs(LastWithTitle(existing_products,
                               scraped_products[k].product_title).product_price
                 - scraped_products[k].product_price) <= PriceTol

(* C11: a run that starts with an empty cache and scrapes only products    *)
(* stored with the same price saves the loaded records themselves (the     *)
(* stored image paths included; the very list when it repeats no title),   *)
(* counts no update, and leaves every scraped title cached with its stored *)
(* price.                                                                  *)
C11_ColdUnchanged ==
    (Saved /\ ColdUnchangedRun) =>
        /\ RecordsOf(storage) = LoadedByTitle
        /\ (TitlesUnique(existing_products) => storage = existing_products)
        /\ updated_count = 0
        /\ \A t \in TitlesOf(scraped_products) :
              cache[t] = LastWithTitle(existing_products, t).product_price

(* C11 witness: both stored titles were scraped again at their stored      *)
(* prices, with image paths the stored records do not have.                *)
C11_Witness ==
    /\ Saved
    /\ ColdUnchangedRun
    /\ TitlesUnique(existing_products)
    /\ Cardinality(TitlesOf(scraped_products)) = 2
    /\ \A k \in DOMAIN scraped_products :
          scraped_products[k].path_to_image
              # LastWithTitle(existing_products,
                              scraped_products[k].product_title).path_to_image

(* C12: a completed run over an empty storage and an empty cache whose     *)
(* pages brought k products of pairwise different titles has saved k       *)
(* records, counted k updates and sent once "Scraped k products. Updated k *)
(* in DB."; the first number of every message is the number of records     *)
(* extracted over all pages.                                               *)
C12_FreshCatalogue ==
    pc = "done" =>
        /\ message.scraped = Len(scraped_products)
        /\ message.updated = updated_count
        /\ send_calls = 1
        /\ ((existing_products = <<>> /\ cache0 = EmptyCache
                /\ TitlesUnique(scraped_products)) =>
               /\ Len(storage) = Len(scraped_products)
               /\ RecordsOf(storage) = RecordsOf(scraped_products)
               /\ updated_count = Len(scraped_products)
               /\ message = Message(Len(scraped_products), Len(scraped_products)))

(* C12 witness: two pages brought two products of different titles to an   *)
(* empty storage and an empty cache.                                       *)
C12_Witness ==
    /\ pc = "done"
    /\ existing_products = <<>>
    /\ cache0 = EmptyCache
    /\ TitlesUnique(scraped_products)
    /\ Len(scraped_products) = 2
    /\ message = Message(2, 2)

(* The extractor failed on the body, or the body has no products container. *)
ExtractionFailed(html) == html.kind \in {"malformed", "no_container"}

(* C13: when a fetch succeeds and the extraction of its body fails (or the *)
(* container is absent), the call returns an empty list with that fetch as *)
(* its last event: one successful fetch, nothing after it, and one fetch   *)
(* and no sleep at all when no transport failure came before; no exception *)
(* leaves the call, the next step goes on to the next page or to the       *)
(* reconciliation, and a run that is reconciling goes on to save and       *)
(* notify.                                                                 *)
C13_ExtractionAbsorbed ==
    /\ [](ExtractionFailed(response) =>
            /\ pc = "returned"
            /\ page_products = <<>>
            /\ ~exhausted
            /\ Count(trace, "ok") = 1
            /\ trace[Len(trace)] = "ok"
            /\ (Count(trace, "fail") = 0 => Fetches(trace) = 1 /\ Sleeps(trace) = 0))
    /\ [][(pc = "returned" /\ ExtractionFailed(response) /\ pc' # pc) =>
            /\ scraped_products' = scraped_products
            /\ IF page < limit_pages
               THEN pc' = "fetch" /\ page' = page + 1
               ELSE pc' = "reconcile"]_vars
    /\ [][(pc = "reconcile" => pc' \in {"reconcile", "notify"})
          /\ (pc = "notify" => pc' \in {"notify", "done"})
          /\ (pc' = "notify" /\ pc = "reconcile" => save_calls' = 1)
          /\ (pc' = "done" /\ pc = "notify" => send_calls' = 1)]_vars

(* C13 witness: the only attempt for page 1 of 2 fetched a body on which   *)
(* the extractor failed, and the call has returned.                        *)
C13_Witness ==
    /\ pc = "returned"
    /\ response = Malformed
    /\ trace = <<"ok">>
    /\ page = 1
    /\ limit_pages = 2
    /\ page_products = <<>>

(* The item has a product-inner wrapper and a non-empty title. *)
HasTitle(item) == item.inner /\ item.details /\ item.title # ""

(* C14: the extractor emits a record for an item exactly when the item has *)
(* its wrapper and a non-empty title; the records come in the order of     *)
(* their items, an item without a title yields none while its siblings are *)
(* kept, and an item with a title and no price is emitted with price 0.    *)
C14_TitlePolicy ==
    (pc = "extracted" /\ response.kind = "listing") =>
        LET kept == SelectSeq(response.items, HasTitle)
        IN  page_products =
                [k \in 1..Len(kept) |->
                    [product_title |-> kept[k].title,
                     product_price |-> IF kept[k].price = NoPrice THEN 0 ELSE kept[k].price,
                     path_to_image |-> kept[k].img]]

(* C14 witness: of two items the first has no title and the second has a   *)
(* title and no price; the second alone is emitted, with price 0.          *)
C14_Witness ==
    /\ pc = "extracted"
    /\ response.kind = "listing"
    /\ Len(response.items) = 2
    /\ response.items[1].inner /\ response.items[1].title = ""
    /\ response.items[2].inner /\ response.items[2].title # ""
    /\ response.items[2].price = NoPrice
    /\ Len(page_products) = 1
    /\ page_products[1].product_price = 0
    /\ page_products[1].product_title = response.items[2].title

(* C15: a trigger request whose token is missing or is not the static      *)
(* token is answered 401 or 422 without any core logic: no storage.load,   *)
(* no fetch, no sleep, no storage.save, no notification, and the storage   *)
(* and the cache are left as they were.                                    *)
C15_RejectedBeforeCore ==
    /\ [](x_token # API_TOKEN =>
            /\ pc \in {"idle", "responded"}
            /\ load_calls = 0
            /\ trace = <<>>
            /\ save_calls = 0
            /\ send_calls = 0
            /\ (pc = "responded" => status = IF x_token = NoHeader THEN 422 ELSE 401))
    /\ [][x_token' # API_TOKEN => storage' = storage /\ cache' = cache]_vars

(* C15 witness: after a completed run that saved a record, a request with  *)
(* a wrong token has been answered 401.                                    *)
C15_Witness ==
    /\ pc = "responded"
    /\ x_token = "WRONG_TOKEN"
    /\ status = 401
    /\ storage # <<>>
    /\ \E k \in DOMAIN storage : storage[k].path_to_image = "img"

(* C16: a trigger request with the static token and no limit_pages runs    *)
(* pages 1 and 2, saves, notifies and is answered 200.                     *)
C16_DefaultRunAccepted ==
    (pc = "responded" /\ x_token = API_TOKEN /\ limit_pages = None) =>
        /\ status = 200
        /\ page = 2
        /\ save_calls = 1
        /\ send_calls = 1

(* The run is in its page loop. *)
InPageLoop == pc \in {"fetch", "sleep", "returned"}

(* C17: in every run storage.load comes before the first fetch; the page   *)
(* loop starts at page 1 and moves from page p to p + 1 only when the call *)
(* for p has returned, all its attempts and sleeps done; fetches and       *)
(* sleeps happen only in the page loop; the cache and the dictionary are   *)
(* changed only by the reconciliation, which begins when page limit_pages  *)
(* has returned; then storage.save is called once and after it             *)
(* notifier.send once.                                                     *)
C17_RunOrdering ==
    /\ [](/\ (InPageLoop \/ pc \in {"reconcile", "notify", "done"}) => load_calls = 1
          /\ InPageLoop => (page \in 1..limit_pages /\ save_calls = 0 /\ send_calls = 0)
          /\ pc = "reconcile" =>
                (page = limit_pages /\ trace = <<>> /\ save_calls = 0 /\ send_calls = 0)
          /\ pc = "notify" => (save_calls = 1 /\ send_calls = 0)
          /\ pc = "done" => (save_calls = 1 /\ send_calls = 1))
    /\ [][IF load_calls' = 1 /\ pc \in {"idle", "done", "aborted"}
          THEN page' = 1 /\ trace' = <<>> /\ cache' = cache
          ELSE /\ (page' # page =>
                      pc = "returned" /\ page' = page + 1 /\ page < limit_pages
                      /\ trace' = <<>>)
               /\ (trace' # trace /\ trace' # <<>> => pc \in {"fetch", "sleep"})
               /\ ((cache' # cache \/ existing_dict' # existing_dict) =>
                      pc = "reconcile" /\ page = limit_pages)
               /\ (save_calls' # save_calls =>
                      pc = "reconcile" /\ idx > Len(scraped_products)
                      /\ save_calls' = 1 /\ send_calls = 0)
               /\ (send_calls' # send_calls =>
                      pc = "notify" /\ save_calls = 1 /\ send_calls' = 1)
               /\ (storage' # storage => save_calls' = save_calls + 1)]_vars

(* C17 witness: a run over two pages, whose second page brought a product  *)
(* that changed the dictionary, has saved and notified.                    *)
C17_Witness ==
    /\ pc = "done"
    /\ limit_pages = 2
    /\ page = 2
    /\ Len(scraped_products) = 2
    /\ updated_count >= 1
    /\ storage # existing_products
    /\ save_calls = 1
    /\ send_calls = 1

(* The titles of the merged set that the loaded set did not have. *)
AddedTitles == TitlesOf(existing_dict) \ TitlesOf(existing_products)

(* C18: when the reconciliation has ended, updated_count is at most the    *)
(* number of scraped products and at least the number of titles of the     *)
(* merged set that were not in the loaded set.                             *)
C18_CountBounds ==
    ReconcileEnded =>
        /\ updated_count <= Len(scraped_products)
        /\ updated_count >= Cardinality(AddedTitles)

(* C18 witness: a reconciliation of two scraped products ended with both   *)
(* counted, one of them under a title the loaded set did not have.         *)
C18_Witness ==
    /\ ReconcileEnded
    /\ Len(scraped_products) = 2
    /\ updated_count = 2
    /\ Cardinality(AddedTitles) = 1
    /\ existing_products # <<>>

(* Every title of the cache at the start of the run is in the loaded set. *)
CacheWithinLoaded ==
    \A t \in Titles : cache0[t] # None => DictHas(existing_products, t)

(* C19: after a completed run that started with a cache whose every title  *)
(* is in the loaded set (an empty cache included), every title of the      *)
(* scraped list is a title of the saved set and of the cache.              *)
C19_MergeComplete ==
    (Saved /\ CacheWithinLoaded) =>
        \A k \in DOMAIN scraped_products :
            /\ DictHas(storage, scraped_products[k].product_title)
            /\ get_price(cache, scraped_products[k].product_title) # None

(* C19 witness: a run that started with a non-empty cache within the       *)
(* loaded set has saved a scraped title the loaded set did not have.       *)
C19_Witness ==
    /\ pc = "done"
    /\ CacheWithinLoaded
    /\ cache0 # EmptyCache
    /\ \E k \in DOMAIN scraped_products :
          /\ ~DictHas(existing_products, scraped_products[k].product_title)
          /\ DictHas(storage, scraped_products[k].product_title)

(* C20: with retry_attempts <= 0 the run makes no fetch and no sleep and   *)
(* never aborts; it completes with an empty scraped list, saves the loaded *)
(* set unchanged (the very list when its titles are unique), leaves the    *)
(* cache as it was and notifies "Scraped 0 products. Updated 0 in DB.".    *)
C20_DegenerateRetryBudget ==
    (load_calls = 1 /\ limit_pages # None /\ retry_attempts <= 0) =>
        /\ trace = <<>>
        /\ pc \notin {"fetch", "sleep", "aborted", "crashed"}
        /\ scraped_products = <<>>
        /\ updated_count = 0
        /\ cache = cache0
        /\ Saved =>
              /\ RecordsOf(storage) = LoadedByTitle
              /\ TitlesUnique(existing_products) => storage = existing_products
              /\ save_calls = 1
        /\ pc = "done" => (send_calls = 1 /\ message = Message(0, 0))

(* C20 witness: a run with retry_attempts = 0 over two pages and a         *)
(* non-empty loaded set has saved and notified.                            *)
C20_Witness ==
    /\ pc = "done"
    /\ retry_attempts = 0
    /\ limit_pages = 2
    /\ page = 2
    /\ existing_products # <<>>
    /\ storage = existing_products
    /\ message = Message(0, 0)

====
